---- MODULE Spec2Model ----
(***************************************************************************)
(* Model of the conversion pipeline and batch scheduler of                 *)
(* src/client/lazy-app/core/convert.ts: convertFiles (the batch           *)
(* scheduler) driving convertFile (the single-item pipeline) through its   *)
(* capability calls, with an AbortSignal shared by the whole batch.        *)
(*                                                                         *)
(* JavaScript runs one continuation at a time, so every action below is    *)
(* one run of synchronous code: from the settling of the promise a worker  *)
(* awaits up to the next promise it awaits.                                *)
(***************************************************************************)
EXTENDS Integers, Sequences, FiniteSets, TLC

\* ---------------------------------------------------------------- bounds
MaxFiles == 3
ClampTotal == 10
MaxSelections == 3
MaxAppFiles == 2

\* ------------------------------------------------------------- constants
DefaultConcurrency == 2
MaxConcurrency == 8

\* opts.concurrency is <<>> when the caller left it undefined, <<n>> otherwise
NoConcurrency == << >>
Requests == {NoConcurrency} \cup {<<n>> : n \in {-1, 0, 100}}
ClampRequests == {NoConcurrency} \cup {<<n>> : n \in (-2 .. 12) \cup {100}}

NoError == "none"
AbortError == "AbortError"
DecodeError == "Couldn't decode image"

VARIABLES
  files,      \* the File[] handed to convertFiles
  opts,       \* BatchOptions: concurrency, rotate, resize, quantize
  aborted,    \* signal.aborted
  batch,      \* the promise convertFiles returns
  batchErr,   \* its rejection reason
  callAborted,\* signal.aborted at the moment convertFiles was called
  total,      \* convertFiles local
  results,    \* convertFiles local: sparse array, index -> ConvertResult
  conc,       \* convertFiles local
  done,       \* convertFiles local
  queue,      \* convertFiles local
  workers,    \* the promises of run(), each with its position
  progress,   \* the calls opts.onProgress has received, in order
  bridges,    \* how many WorkerBridge objects the batch has constructed
  \* one convertFile call made on its own
  fcall,      \* the promise convertFile returns, with the call's position
  sniffed,    \* decodeImage locals: mimeType and canDecode
  bufs,       \* decoded, preprocessed, processed, output of the call, and
              \* result, the working buffer of processImage
  flog,       \* the capability calls dispatched so far, with their arguments
  \* the SimpleApp component
  appItems,   \* state.items
  appRunning, \* state.running
  appAc,      \* this.ac: which convertFiles call the controller belongs to
  appCalls,   \* the convertFiles calls the component has made
  appPicks    \* how many file selections the user has made

schedVars == <<batch, batchErr, callAborted, total, results, conc, done,
               queue, workers, progress, bridges>>
fileVars == <<fcall, sniffed, bufs, flog>>
appVars == <<appItems, appRunning, appAc, appCalls, appPicks>>

vars == <<files, opts, aborted, schedVars, fileVars, appVars>>

Min(a, b) == IF a < b THEN a ELSE b
Max(a, b) == IF a > b THEN a ELSE b

\* the File objects of a batch of t files: distinct, and none equal to its
\* own index
Batch(t) == [i \in 1 .. t |-> [name |-> t - i]]

\* ------------------------------------------------ convertFile, by stage
Await(s) == [stage |-> s, err |-> NoError]
Reject(e) == [stage |-> "rejected", err |-> e]
Resolved == [stage |-> "resolved", err |-> NoError]

\* assertSignal(signal); encoder.encode(...)
EncodeImageStart(ab) ==
  IF ab THEN Reject(AbortError) ELSE Await("encode")

\* after resize returned: the quantize branch of processImage
AfterResize(o, ab) ==
  IF o.quantize THEN Await("quantize") ELSE EncodeImageStart(ab)

\* ProcessImageStart without its resize step
ProcessImageStartNoResize(o, ab) ==
  IF ab THEN Reject(AbortError) ELSE AfterResize(o, ab)

\* assertSignal(signal); resize and quantize when enabled
ProcessImageStart(o, ab) ==
  IF ab THEN Reject(AbortError)
  ELSE IF o.resize THEN Await("resize")
  ELSE AfterResize(o, ab)

\* PreprocessImageStart rotating whatever the angle
PreprocessImageStartAlways(o, ab) ==
  IF ab THEN Reject(AbortError) ELSE Await("rotate")

\* assertSignal(signal); rotate unless the angle is 0
PreprocessImageStart(o, ab) ==
  IF ab THEN Reject(AbortError)
  ELSE IF o.rotate THEN Await("rotate")
  ELSE ProcessImageStart(o, ab)

\* assertSignal(signal); abortable(signal, sniffMimeType(blob))
DecodeImageStart(ab) ==
  IF ab THEN Reject(AbortError) ELSE Await("sniff")

\* the synchronous part of convertFile(file, opts, signal)
ConvertFileStart(ab) == DecodeImageStart(ab)

RawError(stage) ==
  CASE stage = "sniff"    -> "SniffError"
    [] stage = "probe"    -> "ProbeError"
    [] stage = "rotate"   -> "RotateError"
    [] stage = "resize"   -> "ResizeError"
    [] stage = "quantize" -> "QuantizeError"
    [] stage = "encode"   -> "EncodeError"

\* the catch block of decodeImage
DecodeCatch(e) == IF e = AbortError THEN AbortError ELSE DecodeError

\* the stages whose promise convertFile awaits through abortable(signal, ...)
Abortable == {"sniff", "probe"}

\* what the await at `stage` sees when the capability settles with `outcome`:
\* abortable rejects with the abort error as soon as the token fires, so a
\* promise wrapped in it that settles later is not seen any more
Observed(stage, outcome, ab) ==
  IF ab /\ stage \in Abortable THEN "abort" ELSE outcome

\* Settle with every stage's failure caught and ignored
SettleSwallowing(stage, outcome, o, ab) ==
  IF Observed(stage, outcome, ab) = "abort" THEN Reject(AbortError)
  ELSE CASE stage = "sniff"    -> Await("probe")
         [] stage = "probe"    -> Await("decode")
         [] stage = "decode"   -> PreprocessImageStart(o, ab)
         [] stage = "rotate"   -> ProcessImageStart(o, ab)
         [] stage = "resize"   -> AfterResize(o, ab)
         [] stage = "quantize" -> EncodeImageStart(ab)
         [] stage = "encode"   -> Resolved

\* the continuation of convertFile when the capability awaited at `stage`
\* settles with `outcome`
Settle(stage, outcome, o, ab) ==
  IF outcome # "ok" /\ stage = "decode"
    THEN Reject(DecodeCatch(IF outcome = "abort" THEN AbortError
                            ELSE "DecoderError"))
  ELSE IF Observed(stage, outcome, ab) = "abort" THEN Reject(AbortError)
  ELSE IF outcome = "fail" THEN Reject(RawError(stage))
  ELSE CASE stage = "sniff"    -> Await("probe")
         [] stage = "probe"    -> Await("decode")
         [] stage = "decode"   -> PreprocessImageStart(o, ab)
         [] stage = "rotate"   -> ProcessImageStart(o, ab)
         [] stage = "resize"   -> AfterResize(o, ab)
         [] stage = "quantize" -> EncodeImageStart(ab)
         [] stage = "encode"   -> Resolved

\* ------------------------------------------------------- convertFiles
\* EffectiveConc without the lower clamp Math.max(1, ...)
EffectiveConcNoFloor(c) ==
  Min(IF c = NoConcurrency THEN DefaultConcurrency ELSE c[1], MaxConcurrency)

\* Math.max(1, Math.min(opts.concurrency ?? 2, 8))
EffectiveConc(c) ==
  Max(1, Min(IF c = NoConcurrency THEN DefaultConcurrency ELSE c[1],
             MaxConcurrency))

\* Array.from({ length: Math.min(conc, total) }, () => run())
NumWorkers(c, t) == Min(EffectiveConc(c), t)

\* files[idx], indices counted from 0 as in the source
FileAt(idx) == files[idx + 1]

\* return { input: file, output, processed }
MakeResult(file) == [input |-> file]

\* StoreResult as results.push(res): slots filled in completion order
StoreResultPush(res, idx, r) ==
  [i \in DOMAIN res \cup {Cardinality(DOMAIN res)} |->
     IF i = Cardinality(DOMAIN res) THEN r ELSE res[i]]

\* StoreResult on a fresh array: the earlier slots are lost
StoreResultFresh(res, idx, r) == [i \in {idx} |-> r]

\* results[idx] = res
StoreResult(res, idx, r) ==
  [i \in DOMAIN res \cup {idx} |-> IF i = idx THEN r ELSE res[i]]

\* NextDone counting an item twice
NextDoneTwice(d) == d + 2

\* done += 1
NextDone(d) == d + 1

\* results.length of the sparse array
ResultsLength(res) ==
  IF DOMAIN res = {} THEN 0
  ELSE 1 + CHOOSE m \in DOMAIN res : \A i \in DOMAIN res : i <= m

\* AfterShift reading the head without removing it
AfterShiftPeek(q) == q

\* the queue once queue.shift() has taken its head
AfterShift(q) == Tail(q)

Running(w) == workers[w].pc = "await"
Ended(w) == workers[w].pc \in {"returned", "rejected"}

Outcomes == IF aborted THEN {"ok", "fail", "abort"} ELSE {"ok", "fail"}

\* an image, a blob or another value handed to or returned by a capability:
\* what produced it and from what
Value(op, src) == [op |-> op, src |-> src]
NoValue == Value("none", << >>)

\* no convertFile call has been made on its own
NotCalled == [stage |-> "notcalled", err |-> NoError]
FileIdle ==
  /\ fcall = NotCalled
  /\ sniffed = [mimeType |-> "none", canDecode |-> FALSE]
  /\ bufs = [decoded |-> NoValue, preprocessed |-> NoValue,
             result |-> NoValue, processed |-> NoValue, output |-> NoValue]
  /\ flog = << >>

\* the component as constructed: state = { items: [], running: false }
AppIdle ==
  /\ appItems = << >>
  /\ appRunning = FALSE
  /\ appAc = 0
  /\ appCalls = << >>
  /\ appPicks = 0

Init ==
  /\ files \in {Batch(t) : t \in 0 .. MaxFiles}
  /\ opts \in [concurrency : Requests, rotate : BOOLEAN,
               resize : BOOLEAN, quantize : BOOLEAN]
  /\ aborted = FALSE
  /\ batch = "notcalled"
  /\ batchErr = NoError
  /\ callAborted = FALSE
  /\ total = 0
  /\ results = << >>
  /\ conc = 0
  /\ done = 0
  /\ queue = << >>
  /\ workers = << >>
  /\ progress = << >>
  /\ bridges = 0
  /\ FileIdle
  /\ AppIdle

\* controller.abort() by whoever holds the AbortController
Cancel ==
  /\ ~aborted
  /\ aborted' = TRUE
  /\ UNCHANGED <<files, opts, schedVars, fileVars, appVars>>

\* convertFiles(files, opts, signal) up to `await Promise.all(workers)`:
\* the run() calls execute one after the other, each popping the head of the
\* queue and starting convertFile on it, or returning at once when the queue
\* is already empty
CallConvertFiles ==
  /\ batch = "notcalled"
  /\ LET t == Len(files)
         n == NumWorkers(opts.concurrency, t)
         popped == Min(Max(n, 0), t)
     IN /\ total' = t
        /\ results' = << >>
        /\ conc' = EffectiveConc(opts.concurrency)
        /\ done' = 0
        /\ queue' = [k \in 1 .. (t - popped) |-> popped + k - 1]
        /\ workers' = [w \in 1 .. n |->
                         IF w <= t
                         THEN [pc |-> "await", idx |-> w - 1, bridge |-> w,
                               call |-> ConvertFileStart(aborted)]
                         ELSE [pc |-> "returned", idx |-> -1, bridge |-> 0,
                               call |-> Resolved]]
        /\ bridges' = popped
        /\ batch' = IF \A w \in 1 .. n : w > t THEN "resolved" ELSE "pending"
  /\ callAborted' = aborted
  /\ UNCHANGED <<files, opts, aborted, batchErr, progress, fileVars, appVars>>

\* a capability call inside convertFile settles and convertFile goes on to
\* its next capability call
StageSettles(w, outcome) ==
  /\ Running(w)
  /\ workers[w].call.stage \notin {"rejected", "resolved"}
  /\ LET next == Settle(workers[w].call.stage, outcome, opts, aborted)
     IN /\ next.stage \notin {"rejected", "resolved"}
        /\ workers' = [workers EXCEPT ![w].call = next]
  /\ UNCHANGED <<files, opts, aborted, batch, batchErr, callAborted, total,
                 results, conc, done, queue, progress, bridges, fileVars,
                 appVars>>

\* Finally reporting the item twice, once from the try block as well
FinallyTwice ==
  /\ done' = NextDone(done)
  /\ progress' = Append(Append(progress,
                               [done |-> NextDone(done), total |-> total]),
                        [done |-> NextDone(done), total |-> total])

\* the finally block of run: done += 1; opts.onProgress?.(done, total)
Finally ==
  /\ done' = NextDone(done)
  /\ progress' = Append(progress, [done |-> NextDone(done), total |-> total])

\* convertFile resolves: results[idx] = res, the finally block, and the
\* next turn of `while (queue.length)`
ItemSucceeds(w, outcome, cbAborts) ==
  /\ Running(w)
  /\ workers[w].call.stage \notin {"rejected", "resolved"}
  /\ Settle(workers[w].call.stage, outcome, opts, aborted) = Resolved
  /\ results' = StoreResult(results, workers[w].idx,
                            MakeResult(FileAt(workers[w].idx)))
  /\ Finally
  /\ aborted' = (aborted \/ cbAborts)
  /\ IF queue # << >>
       THEN /\ queue' = AfterShift(queue)
            /\ bridges' = bridges + 1
            /\ workers' = [workers EXCEPT
                             ![w] = [pc |-> "await", idx |-> Head(queue),
                                     bridge |-> bridges + 1,
                                     call |-> ConvertFileStart(aborted')]]
            /\ UNCHANGED batch
       ELSE /\ queue' = queue
            /\ bridges' = bridges
            /\ workers' = [workers EXCEPT ![w].pc = "returned",
                                          ![w].call = Resolved]
            /\ batch' = IF /\ batch = "pending"
                           /\ \A v \in DOMAIN workers :
                                 workers'[v].pc = "returned"
                        THEN "resolved" ELSE batch
  /\ UNCHANGED <<files, opts, batchErr, callAborted, total, conc, fileVars,
                 appVars>>

\* convertFile rejects: the finally block runs and the error leaves run(),
\* rejecting that worker's promise and with it Promise.all
ItemFails(w, outcome, cbAborts) ==
  /\ Running(w)
  /\ LET end == IF workers[w].call.stage = "rejected" THEN workers[w].call
                ELSE Settle(workers[w].call.stage, outcome, opts, aborted)
     IN /\ end.stage = "rejected"
        /\ workers' = [workers EXCEPT ![w].pc = "rejected", ![w].call = end]
        /\ batch' = IF batch = "pending" THEN "rejected" ELSE batch
        /\ batchErr' = IF batch = "pending" THEN end.err ELSE batchErr
  /\ Finally
  /\ aborted' = (aborted \/ cbAborts)
  /\ UNCHANGED <<files, opts, callAborted, total, results, conc, queue,
                 bridges, fileVars, appVars>>

Next ==
  \/ Cancel
  \/ CallConvertFiles
  \/ \E w \in DOMAIN workers, o \in Outcomes : StageSettles(w, o)
  \/ \E w \in DOMAIN workers, o \in Outcomes, c \in BOOLEAN :
       ItemSucceeds(w, o, c)
  \/ \E w \in DOMAIN workers, o \in Outcomes, c \in BOOLEAN :
       ItemFails(w, o, c)

Spec == Init /\ [][Next]_vars

\* ------------------------------------------- one convertFile call, in full
\* what sniffMimeType can answer: the formats decodeImage hands to the
\* worker bridge, and one it does not
MimeTypes == {"image/avif", "image/webp", "image/jxl", "image/webp2",
              "image/qoi", "image/png"}

\* the decoder decodeImage picks inside its try block
Decoder(mimeType, canDecode) ==
  IF canDecode THEN "builtinDecode"
  ELSE CASE mimeType = "image/avif"  -> "avifDecode"
         [] mimeType = "image/webp"  -> "webpDecode"
         [] mimeType = "image/jxl"   -> "jxlDecode"
         [] mimeType = "image/webp2" -> "wp2Decode"
         [] mimeType = "image/qoi"   -> "qoiDecode"
         [] OTHER                    -> "builtinDecode"

Decoders == {Decoder(m, c) : m \in MimeTypes, c \in BOOLEAN}

\* the capability convertFile is awaiting at `stage`
Capability(stage, sn) ==
  CASE stage = "sniff"  -> "sniffMimeType"
    [] stage = "probe"  -> "canDecodeImageType"
    [] stage = "decode" -> Decoder(sn.mimeType, sn.canDecode)
    [] OTHER            -> stage

\* the arguments that capability is called with
Arguments(stage, b, sn, file) ==
  CASE stage = "sniff"    -> <<Value("file", <<file>>)>>
    [] stage = "probe"    -> <<Value(sn.mimeType, << >>)>>
    [] stage = "decode"   -> <<Value("file", <<file>>)>>
    [] stage = "rotate"   -> <<b.decoded>>
    [] stage = "resize"   -> <<b.result, b.decoded>>
    [] stage = "quantize" -> <<b.result>>
    [] stage = "encode"   -> <<b.processed>>

\* what a capability call returns when it succeeds: a value of its own,
\* determined by the call
Returned(entry) == Value(entry.cap, entry.args)

\* processImage: return result
ProcessReturn(b) == [b EXCEPT !.processed = b.result]

\* processImage after resize: a quantize call or the return
ResizeReturn(o, b) == IF o.quantize THEN b ELSE ProcessReturn(b)

\* processImage: let result = source.preprocessed, then resize if enabled
ProcessImageData(o, ab, b) ==
  IF ab THEN b
  ELSE LET b1 == [b EXCEPT !.result = b.preprocessed]
       IN IF o.resize THEN b1 ELSE ResizeReturn(o, b1)

\* convertFile: const preprocessed = await preprocessImage(...)
PreprocessReturn(o, ab, b, v) ==
  ProcessImageData(o, ab, [b EXCEPT !.preprocessed = v])

\* preprocessImage: processedData = data, returned as it is when the angle
\* is 0
PreprocessImageData(o, ab, b) ==
  IF ab \/ o.rotate THEN b ELSE PreprocessReturn(o, ab, b, b.decoded)

\* the buffers of convertFile once the capability awaited at `stage` has
\* returned v and the continuation has run to its next await
SettleData(stage, v, o, ab, b) ==
  CASE stage = "decode"   -> PreprocessImageData(o, ab, [b EXCEPT !.decoded = v])
    [] stage = "rotate"   -> PreprocessReturn(o, ab, b, v)
    [] stage = "resize"   -> ResizeReturn(o, [b EXCEPT !.result = v])
    [] stage = "quantize" -> ProcessReturn([b EXCEPT !.result = v])
    [] stage = "encode"   -> [b EXCEPT !.output = Value("File", <<v>>)]
    [] OTHER              -> b

Awaiting(call) == call.stage \notin {"notcalled", "rejected", "resolved"}

\* the log once the call has moved to `call`: a new entry when it awaits a
\* capability
Dispatch(log, call, b, sn) ==
  IF Awaiting(call)
  THEN Append(log, [cap |-> Capability(call.stage, sn),
                    args |-> Arguments(call.stage, b, sn, FileAt(0)),
                    outcome |-> "pending"])
  ELSE log

InitFile ==
  /\ files = Batch(1)
  /\ opts \in [concurrency : {NoConcurrency}, rotate : BOOLEAN,
               resize : BOOLEAN, quantize : BOOLEAN]
  /\ aborted = FALSE
  /\ batch = "notcalled"
  /\ batchErr = NoError
  /\ callAborted = FALSE
  /\ total = 0
  /\ results = << >>
  /\ conc = 0
  /\ done = 0
  /\ queue = << >>
  /\ workers = << >>
  /\ progress = << >>
  /\ bridges = 0
  /\ FileIdle
  /\ AppIdle

\* convertFile(file, opts, signal) up to its first await
CallConvertFile ==
  /\ fcall = NotCalled
  /\ fcall' = ConvertFileStart(aborted)
  /\ flog' = Dispatch(flog, fcall', bufs, sniffed)
  /\ UNCHANGED <<files, opts, aborted, sniffed, bufs, schedVars, appVars>>

\* the capability convertFile awaits settles, and convertFile runs on to its
\* next await, its return or its rejection; sniffMimeType answers mimeType
\* and canDecodeImageType answers canDecode
CapabilitySettles(outcome, mimeType, canDecode) ==
  /\ Awaiting(fcall)
  /\ fcall' = Settle(fcall.stage, outcome, opts, aborted)
  /\ sniffed' =
       IF Observed(fcall.stage, outcome, aborted) # "ok" THEN sniffed
       ELSE IF fcall.stage = "sniff"
         THEN [sniffed EXCEPT !.mimeType = mimeType]
       ELSE IF fcall.stage = "probe"
         THEN [sniffed EXCEPT !.canDecode = canDecode]
       ELSE sniffed
  /\ bufs' = IF outcome = "ok"
               THEN SettleData(fcall.stage, Returned(flog[Len(flog)]), opts,
                               aborted, bufs)
               ELSE bufs
  /\ flog' = Dispatch([flog EXCEPT ![Len(flog)].outcome =
                                      Observed(fcall.stage, outcome, aborted)],
                      fcall', bufs', sniffed')
  /\ UNCHANGED <<files, opts, aborted, schedVars, appVars>>

NextFile ==
  \/ Cancel
  \/ CallConvertFile
  \/ \E o \in Outcomes, m \in MimeTypes, c \in BOOLEAN :
       CapabilitySettles(o, m, c)

SpecFile == InitFile /\ [][NextFile]_vars

\* ---------------------------------------------------- the SimpleApp component
\* The component's convertFiles calls are seen from outside here: a call is
\* pending until it resolves, with a result for each of its files, or rejects.

\* the items onSelectFiles builds from the n files of selection number pick
PendingItems(pick, n) ==
  [i \in 1 .. n |-> [pick |-> pick, pos |-> i, status |-> "pending",
                     url |-> << >>]]

\* start(): items.map((it) => ({ ...it, status: 'processing' }))
Processing(items) ==
  [i \in DOMAIN items |-> [items[i] EXCEPT !.status = "processing"]]

\* this.state.items.map((it) => it.file)
FilesOf(items) ==
  [i \in DOMAIN items |-> [pick |-> items[i].pick, pos |-> items[i].pos]]

\* nextItems of start(): the items of the state as it is now, item i taking
\* results[i] of call b, which has nres results
NextItems(items, b, nres) ==
  [i \in DOMAIN items |->
     IF i <= nres
     THEN [items[i] EXCEPT !.status = "done", !.url = <<b, i>>]
     ELSE [items[i] EXCEPT !.status = "error"]]

InitApp ==
  /\ files = Batch(0)
  /\ opts = [concurrency |-> <<DefaultConcurrency>>, rotate |-> FALSE,
             resize |-> FALSE, quantize |-> FALSE]
  /\ aborted = FALSE
  /\ batch = "notcalled"
  /\ batchErr = NoError
  /\ callAborted = FALSE
  /\ total = 0
  /\ results = << >>
  /\ conc = 0
  /\ done = 0
  /\ queue = << >>
  /\ workers = << >>
  /\ progress = << >>
  /\ bridges = 0
  /\ FileIdle
  /\ AppIdle

\* the user picks or drops n files: onSelectFiles and, from its setState
\* callback, start() up to `await convertFiles(...)`
onSelectFiles(n) ==
  /\ appPicks < MaxSelections
  /\ appPicks' = appPicks + 1
  /\ IF appRunning
       THEN /\ appItems' = PendingItems(appPicks + 1, n)
            /\ UNCHANGED <<appRunning, appAc, appCalls>>
       ELSE /\ appItems' = Processing(PendingItems(appPicks + 1, n))
            /\ appRunning' = TRUE
            /\ appCalls' = Append(appCalls,
                 [files |-> FilesOf(PendingItems(appPicks + 1, n)),
                  aborted |-> FALSE, state |-> "pending"])
            /\ appAc' = Len(appCalls) + 1
  /\ UNCHANGED <<files, opts, aborted, schedVars, fileVars>>

\* the Cancel button, rendered while state.running
cancel ==
  /\ appRunning
  /\ appCalls' = IF appAc = 0 THEN appCalls
                 ELSE [appCalls EXCEPT ![appAc].aborted = TRUE]
  /\ appRunning' = FALSE
  /\ UNCHANGED <<appItems, appAc, appPicks>>
  /\ UNCHANGED <<files, opts, aborted, schedVars, fileVars>>

\* call b resolves: start() continues after its await
startResolves(b) ==
  /\ appCalls[b].state = "pending"
  /\ appCalls' = [appCalls EXCEPT ![b].state = "resolved"]
  /\ appItems' = NextItems(appItems, b, Len(appCalls[b].files))
  /\ appRunning' = FALSE
  /\ UNCHANGED <<appAc, appPicks>>
  /\ UNCHANGED <<files, opts, aborted, schedVars, fileVars>>

\* call b rejects, on an item's failure or on cancellation: the catch block
\* of start()
startRejects(b) ==
  /\ appCalls[b].state = "pending"
  /\ appCalls' = [appCalls EXCEPT ![b].state = "rejected"]
  /\ appRunning' = FALSE
  /\ UNCHANGED <<appItems, appAc, appPicks>>
  /\ UNCHANGED <<files, opts, aborted, schedVars, fileVars>>

NextApp ==
  \/ \E n \in 1 .. MaxAppFiles : onSelectFiles(n)
  \/ cancel
  \/ \E b \in DOMAIN appCalls : startResolves(b)
  \/ \E b \in DOMAIN appCalls : startRejects(b)

SpecApp == InitApp /\ [][NextApp]_vars

\* ------------------------------------------------------------ properties
Called == batch # "notcalled"
Settled == batch \in {"resolved", "rejected"}
AllEnded == \A w \in DOMAIN workers : Ended(w)
InFlight == Cardinality({w \in DOMAIN workers : Running(w)})
\* worker w was ended by the decode error or by an encoder's error
ItemError(w) ==
  /\ workers[w].pc = "rejected"
  /\ workers[w].call.err \in {DecodeError, RawError("encode")}
OnlyItemErrors ==
  \A w \in DOMAIN workers : workers[w].pc = "rejected" => ItemError(w)

\* C1: failure isolation. A decode or encode failure of one item stops
\* neither the worker that hit it nor the batch: no worker's loop is ended by
\* a non-cancellation error, convertFiles is not rejected with one, and when
\* every worker has ended without cancellation the whole queue was served.
FailureIsolation ==
  /\ \A w \in DOMAIN workers : ~ItemError(w)
  /\ batch = "rejected" => batchErr \notin {DecodeError, RawError("encode")}
  /\ (Called /\ ~aborted /\ AllEnded /\ OnlyItemErrors) => queue = << >>

\* C2: index fidelity. Whenever slot i of results holds an outcome, it is the
\* conversion of input file i.
IndexFidelity ==
  \A i \in DOMAIN results :
    /\ i \in 0 .. Len(files) - 1
    /\ results[i].input = FileAt(i)

\* a later item finished before an earlier one
IndexFidelityWitness ==
  /\ 1 \in DOMAIN results
  /\ 0 \notin DOMAIN results
  /\ results[1].input = FileAt(1)

\* C3: a batch that is not cancelled returns, whatever succeeded or failed,
\* a collection of exactly T slots, each holding a success or an error entry.
ReturnsEverySlot ==
  (Settled /\ ~aborted) =>
    /\ batch = "resolved"
    /\ ResultsLength(results) = Len(files)
    /\ \A i \in 0 .. Len(files) - 1 : i \in DOMAIN results

\* C4: the k-th progress callback reports done = k with total = number of
\* files, and done never exceeds total.
ProgressCounts ==
  /\ \A k \in 1 .. Len(progress) :
       /\ progress[k].done = k
       /\ progress[k].total = Len(files)
  /\ done = Len(progress)
  /\ done <= total

\* successes and a failure have both been counted
ProgressCountsWitness ==
  /\ Len(progress) >= 3
  /\ DOMAIN results # {}
  /\ \E w \in DOMAIN workers : ItemError(w)

\* C5: when a batch has completed and the token never fired, done = total,
\* whatever items failed.
DoneReachesTotal ==
  (Settled /\ AllEnded /\ ~aborted /\ OnlyItemErrors) => done = total

\* the claim's closed form of the number of workers: requests of 0 or less
\* count as 1, requests over 8 as 8, no request as 2, and never more workers
\* than files
ExpectedWorkers(c, t) ==
  LET r == IF c = NoConcurrency THEN 2 ELSE c[1]
      e == IF r <= 0 THEN 1 ELSE IF r >= 8 THEN 8 ELSE r
  IN IF e <= t THEN e ELSE t

\* C6: concurrency clamp. The number of workers spawned is
\* min(max(1, min(requested, 8)), T), requested defaulting to 2: for every
\* request and batch size a call can be given, and in the batch under way,
\* where at most that many items are being converted at any time.
ConcurrencyClamp ==
  /\ ~Called =>
       \A c \in ClampRequests, t \in 0 .. ClampTotal :
         NumWorkers(c, t) = ExpectedWorkers(c, t)
  /\ Called =>
       /\ Len(workers) = ExpectedWorkers(opts.concurrency, Len(files))
       /\ InFlight <= ExpectedWorkers(opts.concurrency, Len(files))

\* a request of 100 on a batch of three: three items in flight at once
ConcurrencyClampWitness ==
  /\ opts.concurrency = <<100>>
  /\ Len(files) = 3
  /\ InFlight = 3

\* C7: a token that has fired before convertFiles is called on a non-empty
\* batch means no success is ever recorded and no progress callback is made.
PreCancelledSilent ==
  (Called /\ callAborted /\ Len(files) > 0) =>
    /\ DOMAIN results = {}
    /\ progress = << >>

\* C8: once the token has fired in the middle of a batch, no worker pops
\* another index: a step that ends with the token fired leaves the queue as
\* it was.
NoPopAfterCancel ==
  [][(Called /\ ~callAborted /\ aborted') => queue' = queue]_vars

\* C9: after the token has fired during a batch there is no further progress
\* callback and done does not advance.
NoProgressAfterCancel ==
  [][(Called /\ ~callAborted /\ aborted) =>
       (progress' = progress /\ done' = done)]_vars

\* C10: a ConvertResult stored in slot i is never overwritten or cleared.
SlotsKept ==
  [][\A i \in DOMAIN results :
       i \in DOMAIN results' /\ results'[i] = results[i]]_vars

\* a slot was filled, then the token fired and another item failed
SlotsKeptWitness ==
  /\ DOMAIN results # {}
  /\ aborted
  /\ \E w \in DOMAIN workers : workers[w].pc = "rejected"

\* worker w's loop was ended by the cancellation error
Cancelled(w) ==
  /\ workers[w].pc = "rejected"
  /\ workers[w].call.err = AbortError

\* C11: a cancellation error propagates unmodified. It arises only once the
\* token has fired, it is not recorded as the outcome of the item it hit, it
\* ends the loop of the worker that hit it, and it is the error convertFiles
\* is rejected with.
CancellationSurfaces ==
  \A w \in DOMAIN workers :
    /\ workers[w].call.err = AbortError =>
         /\ aborted
         /\ workers[w].idx \notin DOMAIN results
    /\ Cancelled(w) =>
         /\ batch = "rejected"
         /\ batchErr = AbortError

\* the workers whose item becomes final in the step: they were awaiting
\* convertFile and now have ended or hold another index
Finalizing ==
  {w \in DOMAIN workers :
     /\ Running(w)
     /\ \/ workers'[w].pc # "await"
        \/ workers'[w].idx # workers[w].idx}

\* C15: the progress callback fires exactly once for each item popped, and
\* only once that item's outcome is final. The callbacks made so far are as
\* many as the items popped and no longer in flight; a step makes one
\* callback for each item it finalizes and none otherwise; a result is
\* stored only in the run that makes its item's callback, and it is in its
\* slot when that run has made the callback.
CallbackOncePerItem ==
  /\ [](Called => Len(progress) = (total - Len(queue)) - InFlight)
  /\ [][Called =>
         /\ Len(progress') = Len(progress) + Cardinality(Finalizing)
         /\ \A i \in DOMAIN results' \ DOMAIN results :
              \E w \in Finalizing : workers[w].idx = i
         /\ \A w \in Finalizing :
              workers'[w].pc # "rejected" =>
                workers[w].idx \in DOMAIN results']_vars

\* one callback after a success, one after a failure, one item in flight
CallbackOncePerItemWitness ==
  /\ Len(progress) = 2
  /\ DOMAIN results # {}
  /\ \E w \in DOMAIN workers : workers[w].pc = "rejected"
  /\ InFlight >= 1

QueuedIndices == {queue[k] : k \in DOMAIN queue}
InFlightIndices == {workers[w].idx : w \in {v \in DOMAIN workers : Running(v)}}
RejectedWorkers == {w \in DOMAIN workers : workers[w].pc = "rejected"}
RejectedIndices == {workers[w].idx : w \in RejectedWorkers}

\* C17: queue pops are mutually exclusive. Every input index is in exactly
\* one place: still queued (once), in flight at one worker, stored as a
\* success, or the item that ended one worker; so no index is taken twice and
\* a failed or cancelled item is neither queued nor in flight again.
QueueExclusive ==
  Called =>
    /\ Cardinality(QueuedIndices) = Len(queue)
    /\ Cardinality(InFlightIndices) = InFlight
    /\ Cardinality(RejectedIndices) = Cardinality(RejectedWorkers)
    /\ QueuedIndices \cap InFlightIndices = {}
    /\ QueuedIndices \cap (DOMAIN results \cup RejectedIndices) = {}
    /\ InFlightIndices \cap (DOMAIN results \cup RejectedIndices) = {}
    /\ DOMAIN results \cap RejectedIndices = {}
    /\ QueuedIndices \cup InFlightIndices \cup DOMAIN results
         \cup RejectedIndices = 0 .. Len(files) - 1

\* one item failed, one succeeded, and the third is in flight
QueueExclusiveWitness ==
  /\ RejectedIndices # {}
  /\ DOMAIN results # {}
  /\ InFlightIndices # {}

\* C20: each worker owns one WorkerBridge. The instances constructed during
\* the batch are as many as the workers spawned, hence at most the effective
\* concurrency, and no two items in flight use the same instance.
BridgePerWorker ==
  Called =>
    /\ bridges = Len(workers)
    /\ bridges <= EffectiveConc(opts.concurrency)
    /\ \A v, w \in DOMAIN workers :
         (Running(v) /\ Running(w) /\ v # w) =>
           workers[v].bridge # workers[w].bridge

\* C21: once the promise returned by convertFiles has settled, the batch
\* does no further work: no worker pops another index, no convertFile call
\* starts and no progress callback fires in any later step.
QuietAfterSettled ==
  [][Settled =>
       /\ queue' = queue
       /\ bridges' = bridges
       /\ progress' = progress]_vars

\* ----------------------------------------- properties of one convertFile
Entries(cap) == {k \in DOMAIN flog : flog[k].cap = cap}
Rank(cap) ==
  CASE cap = "sniffMimeType"      -> 1
    [] cap = "canDecodeImageType" -> 2
    [] cap \in Decoders           -> 3
    [] cap = "rotate"             -> 4
    [] cap = "resize"             -> 5
    [] cap = "quantize"           -> 6
    [] cap = "encode"             -> 7
LastOutcome == IF flog = << >> THEN "none" ELSE flog[Len(flog)].outcome

\* C12: convertFile runs Decode, Preprocess, Process, Encode strictly in that
\* order, each only after the one before has succeeded; after a failure or a
\* cancellation nothing more is invoked and convertFile rejects, with no
\* output. Every call but the last has succeeded and the calls come in
\* pipeline order; a stage's calls are made only with the buffer of the stage
\* before; convertFile resolves only after a successful encode, with every
\* buffer produced.
StageOrder ==
  /\ \A k \in 1 .. Len(flog) - 1 :
       /\ flog[k].outcome = "ok"
       /\ Rank(flog[k].cap) < Rank(flog[k + 1].cap)
  /\ Entries("rotate") # {} => bufs.decoded # NoValue
  /\ (Entries("resize") \cup Entries("quantize")) # {} =>
       bufs.preprocessed # NoValue
  /\ Entries("encode") # {} => bufs.processed # NoValue
  /\ bufs.preprocessed # NoValue => bufs.decoded # NoValue
  /\ bufs.processed # NoValue => bufs.preprocessed # NoValue
  /\ bufs.output # NoValue => bufs.processed # NoValue
  /\ LastOutcome \in {"fail", "abort"} => fcall.stage = "rejected"
  /\ fcall.stage = "rejected" => bufs.output = NoValue
  /\ fcall = Resolved =>
       /\ flog[Len(flog)].cap = "encode"
       /\ LastOutcome = "ok"
       /\ \E k \in DOMAIN flog : flog[k].cap \in Decoders
       /\ bufs.output = Value("File", <<Returned(flog[Len(flog)])>>)

\* a call that went through all seven capabilities and resolved
StageOrderWitness ==
  /\ fcall = Resolved
  /\ Len(flog) = 7

\* C13: with angle 0 and the token not fired, preprocessImage returns the
\* image it was given and calls no capability; with another angle it calls
\* rotate exactly once, on the decoded image, and returns what rotate
\* returned.
PreprocessContract ==
  /\ Cardinality(Entries("rotate")) <= 1
  /\ ~opts.rotate =>
       /\ Entries("rotate") = {}
       /\ bufs.preprocessed \in {NoValue, bufs.decoded}
       /\ (bufs.decoded # NoValue /\ ~aborted) =>
            bufs.preprocessed = bufs.decoded
  /\ opts.rotate =>
       /\ (bufs.decoded # NoValue /\ ~aborted) =>
            Cardinality(Entries("rotate")) = 1
       /\ \A k \in Entries("rotate") : flog[k].args = <<bufs.decoded>>
       /\ bufs.preprocessed # NoValue =>
            \E k \in Entries("rotate") :
              /\ flog[k].outcome = "ok"
              /\ bufs.preprocessed = Returned(flog[k])

\* angle 0: the decoded image went through preprocessImage untouched
PreprocessContractWitness ==
  /\ ~opts.rotate
  /\ bufs.decoded # NoValue
  /\ bufs.preprocessed = bufs.decoded
  /\ Entries("encode") # {}

\* C14: processImage resizes before it quantizes. A disabled step is never
\* called; resize gets the preprocessed and the decoded buffer; quantize is
\* called after resize has succeeded, on resize's output, or on the
\* preprocessed buffer when resize is off; what processImage returns is the
\* output of the last enabled step, or the preprocessed buffer itself.
ProcessContract ==
  /\ ~opts.resize => Entries("resize") = {}
  /\ ~opts.quantize => Entries("quantize") = {}
  /\ \A k \in Entries("resize") :
       flog[k].args = <<bufs.preprocessed, bufs.decoded>>
  /\ \A k \in Entries("quantize") :
       IF opts.resize
       THEN \E j \in Entries("resize") :
              /\ j < k
              /\ flog[j].outcome = "ok"
              /\ flog[k].args = <<Returned(flog[j])>>
       ELSE flog[k].args = <<bufs.preprocessed>>
  /\ bufs.processed # NoValue =>
       /\ opts.resize => Cardinality(Entries("resize")) = 1
       /\ opts.quantize => Cardinality(Entries("quantize")) = 1
       /\ IF opts.quantize
            THEN \E k \in Entries("quantize") :
                   bufs.processed = Returned(flog[k])
          ELSE IF opts.resize
            THEN \E k \in Entries("resize") :
                   bufs.processed = Returned(flog[k])
          ELSE bufs.processed = bufs.preprocessed

\* resize and quantize both enabled and processImage has returned
ProcessContractWitness ==
  /\ opts.resize
  /\ opts.quantize
  /\ bufs.processed # NoValue

\* C18: cancellation is checked before every capability dispatch. Once the
\* token has fired the call dispatches no capability any more.
CheckedBeforeDispatch ==
  [][(aborted /\ fcall # NotCalled) => Len(flog') = Len(flog)]_vars

\* C19: every non-cancellation failure inside decodeImage (sniffing, the
\* probe, a format decoder, the built-in decoder) leaves it as the decode
\* error.
DecodeFailuresClassified ==
  (/\ fcall.stage = "rejected"
   /\ LastOutcome = "fail"
   /\ Rank(flog[Len(flog)].cap) <= 3) => fcall.err = DecodeError

\* ------------------------------------------------ properties of SimpleApp
SameItem(i) ==
  /\ i \in DOMAIN appItems'
  /\ appItems'[i].pick = appItems[i].pick
  /\ appItems'[i].pos = appItems[i].pos

\* C16: an item's status only moves along pending -> processing ->
\* {done, error}: an item becomes done or error only from processing, and a
\* done or error item keeps its status, whatever the order of selections,
\* completions, failures and cancels.
ItemLifecycle ==
  [][\A i \in DOMAIN appItems : SameItem(i) =>
       \/ appItems'[i].status = appItems[i].status
       \/ /\ appItems[i].status = "pending"
          /\ appItems'[i].status = "processing"
       \/ /\ appItems[i].status = "processing"
          /\ appItems'[i].status \in {"done", "error"}]_vars

PendingCalls == {b \in DOMAIN appCalls : appCalls[b].state = "pending"}

\* the file whose conversion produced the download URL of item i
UrlFile(i) == appCalls[appItems[i].url[1]].files[appItems[i].url[2]]

\* C22: what is shown for an item comes from converting that item's own
\* file: a download URL on an item is the output of a call's result for
\* exactly that file, results of an earlier batch are never applied to the
\* items of a later selection, and at most one convertFiles call is in
\* flight.
OwnOutcome ==
  /\ \A i \in DOMAIN appItems :
       appItems[i].url # << >> =>
         UrlFile(i) = [pick |-> appItems[i].pick, pos |-> appItems[i].pos]
  /\ Cardinality(PendingCalls) <= 1

\* C23: no item is left stuck in 'processing': when every started batch has
\* ended and running is false again, after completion, after a rejection
\* and after Cancel, no item has the status processing.
NoneStuck ==
  (~appRunning /\ PendingCalls = {}) =>
    \A i \in DOMAIN appItems : appItems[i].status # "processing"

====
